---- MODULE Spec2Model ----
(***************************************************************************)
(* The tree-walking evaluator of the Monkey interpreter                    *)
(* (src/src/evaluator/mod.rs).                                             *)
(*                                                                         *)
(* The evaluator is a recursive function of (AST node, environment); its   *)
(* only mutable state is the graph of Rc<RefCell<Environment>> cells.      *)
(* The model keeps that graph as an arena `heap` (a cell's index is the    *)
(* identity of the Rc), and runs the host's calls of `eval` one after the  *)
(* other against the same root environment, as the REPL does.              *)
(*                                                                         *)
(* Every evaluator function is an operator of the same name.  It takes the *)
(* machine record m = [heap, origin, output, log, checks] and returns      *)
(* [tag, val, m]: tag "Ok" is Rust's Ok(val), "Err" is Err(val) (the       *)
(* propagated EvalError), "Panic" is a native panic unwinding the thread.  *)
(* `log` is a history of what the evaluation did, read by the properties   *)
(* only; no evaluator operator reads it.                                   *)
(***************************************************************************)
EXTENDS Integers, Sequences, FiniteSets, TLC

VARIABLES heap, origin, result, log, output, alive, evals, checks, last

vars == <<heap, origin, result, log, output, alive, evals, checks, last>>

(***************************************************************************)
(* Bounds of the model.                                                    *)
(***************************************************************************)
\* number of calls of eval the host makes against one root environment
MaxEvals == 2

(***************************************************************************)
(* i32                                                                     *)
(***************************************************************************)
MaxI32 == 2147483647
MinI32 == -2147483647 - 1

\* the root environment the host creates with Environment::new()
Root == 1

(***************************************************************************)
(* Runtime objects (object::Object).  A record per variant; the payload    *)
(* field is named after the variant so that two objects of different       *)
(* variants never have a field in common besides `type`.                   *)
(***************************************************************************)
Integer(v) == [type |-> "INTEGER", int |-> v]
Boolean(b) == [type |-> "BOOLEAN", bool |-> b]
String(s) == [type |-> "STRING", str |-> s]
Null == [type |-> "NULL"]
ReturnValue(o) == [type |-> "RETURN_VALUE", inner |-> o]
Error(msg) == [type |-> "ERROR", message |-> msg]
Function(parameters, body, env) ==
    [type |-> "FUNCTION", parameters |-> parameters, body |-> body, env |-> env]
Builtin(name) == [type |-> "BUILTIN", builtin |-> name]
Array(elements) == [type |-> "ARRAY", elements |-> elements]
Hash(pairs) == [type |-> "HASH", pairs |-> pairs]

\* Object::get_type_str
get_type_str(o) == o.type

\* Option<T>
Some(v) == [some |-> TRUE, val |-> v]
None == [some |-> FALSE]

\* Object::get_hash_key: Integer, Boolean and String have one, nothing else
get_hash_key(o) ==
    IF o.type = "INTEGER" THEN Some([hk |-> "INTEGER", hint |-> o.int])
    ELSE IF o.type = "BOOLEAN" THEN Some([hk |-> "BOOLEAN", hbool |-> o.bool])
    ELSE IF o.type = "STRING" THEN Some([hk |-> "STRING", hstr |-> o.str])
    ELSE None

\* equality of two HashKeys (the BTreeMap's key comparison)
SameHashKey(a, b) ==
    /\ a.hk = b.hk
    /\ IF a.hk = "INTEGER" THEN a.hint = b.hint
       ELSE IF a.hk = "BOOLEAN" THEN a.hbool = b.hbool
       ELSE a.hstr = b.hstr

(***************************************************************************)
(* AST nodes (parser::ast), consumed as built.                             *)
(***************************************************************************)
Id(name) == [kind |-> "Identifier", name |-> name]
IntLit(v) == [kind |-> "Integer", value |-> v]
BoolLit(b) == [kind |-> "Boolean", bvalue |-> b]
StrLit(s) == [kind |-> "String", svalue |-> s]
Prefix(op, e) == [kind |-> "Prefix", operator |-> op, operand |-> e]
Infix(op, l, r) == [kind |-> "Infix", operator |-> op, lhs |-> l, rhs |-> r]
\* alternative: Option<BlockStatement>
If(c, cons) == [kind |-> "If", condition |-> c, consequence |-> cons, alternative |-> None]
IfElse(c, cons, alt) ==
    [kind |-> "If", condition |-> c, consequence |-> cons, alternative |-> Some(alt)]
Fn(params, body) == [kind |-> "FnLiteral", parameters |-> params, body |-> body]
ArrayLit(elems) == [kind |-> "ArrayLiteral", elements |-> elems]
HashLit(pairs) == [kind |-> "HashLiteral", pairs |-> pairs]
Call(f, args) == [kind |-> "Call", function |-> f, arguments |-> args]
Index(a, i) == [kind |-> "Index", identifier |-> a, index |-> i]

Let(name, e) == [kind |-> "Let", identifier |-> name, value |-> e]
Return(e) == [kind |-> "Return", value |-> e]
ExprStmt(e) == [kind |-> "Expression", expr |-> e]

Program(stmts) == [node |-> "Program", stmts |-> stmts]
StatementNode(s) == [node |-> "Statement", stmt |-> s]
ExpressionNode(e) == [node |-> "Expression", expr |-> e]

(***************************************************************************)
(* Results and the history.                                                *)
(***************************************************************************)
Emit(m, e) == [m EXCEPT !.log = Append(@, e)]

Ok(v, m) == [tag |-> "Ok", val |-> v, m |-> m]
\* Err(format!(..)): a propagated failure is raised here
Err(msg, m) == [tag |-> "Err", val |-> msg,
                m |-> Emit(m, [ev |-> "fail", msg |-> msg, heap |-> m.heap])]
\* a native panic (index out of bounds, arithmetic overflow, division by zero)
Panic(msg, m) == [tag |-> "Panic", val |-> msg, m |-> Emit(m, [ev |-> "panic", msg |-> msg])]

(***************************************************************************)
(* i32 arithmetic.  `checks` is the build's overflow-checks setting: with  *)
(* it (the debug profile) an overflowing + - * or unary - panics, without  *)
(* it (the release profile) the result wraps modulo 2^32.  Division by     *)
(* zero and MinI32 / -1 panic in every build.  The wrapped results are     *)
(* computed without leaving the 32-bit range.                              *)
(***************************************************************************)
Abs(a) == IF a < 0 THEN -a ELSE a

AddOverflows(a, b) ==
    \/ b > 0 /\ a > MaxI32 - b
    \/ b < 0 /\ a < MinI32 - b

WrappingAdd(a, b) ==
    IF b > 0 /\ a > MaxI32 - b THEN ((a - MaxI32) - 1) + ((b - MaxI32) - 1)
    ELSE IF b < 0 /\ a < MinI32 - b THEN ((a + MaxI32) + 1) + ((b + MaxI32) + 1)
    ELSE a + b

SubOverflows(a, b) ==
    \/ b < 0 /\ a > MaxI32 + b
    \/ b > 0 /\ a < MinI32 + b

WrappingSub(a, b) ==
    IF b < 0 /\ a > MaxI32 + b THEN ((a - MaxI32) - 1) - ((b + MaxI32) + 1)
    ELSE IF b > 0 /\ a < MinI32 + b THEN ((a + MaxI32) + 1) - ((b - MaxI32) - 1)
    ELSE a - b

NegOverflows(a) == a = MinI32

WrappingNeg(a) == IF a = MinI32 THEN MinI32 ELSE -a

\* floor(2^31 / n) for n >= 2
HalfRangeDiv(n) == (MaxI32 \div n) + (IF (MaxI32 % n) + 1 = n THEN 1 ELSE 0)

MulOverflows(a, b) ==
    IF a = 0 \/ b = 0 \/ a = 1 \/ b = 1 THEN FALSE
    ELSE IF a = -1 THEN b = MinI32
    ELSE IF b = -1 THEN a = MinI32
    ELSE IF a = MinI32 \/ b = MinI32 THEN TRUE
    ELSE IF (a > 0) = (b > 0) THEN Abs(a) > MaxI32 \div Abs(b)
    ELSE Abs(a) > HalfRangeDiv(Abs(b))

RECURSIVE WrappingMulNat(_, _)
\* a * n modulo 2^32 for n >= 0, by doubling
WrappingMulNat(a, n) ==
    IF n = 0 THEN 0
    ELSE IF n % 2 = 1 THEN WrappingAdd(a, WrappingMulNat(WrappingAdd(a, a), n \div 2))
    ELSE WrappingMulNat(WrappingAdd(a, a), n \div 2)

WrappingMul(a, b) ==
    IF b >= 0 THEN WrappingMulNat(a, b)
    ELSE IF b = MinI32 THEN (IF a % 2 = 1 THEN MinI32 ELSE 0)
    ELSE WrappingNeg(WrappingMulNat(a, -b))

\* Rust's / on i32 truncates toward zero (b # 0, not MinI32 / -1)
TruncDiv(a, b) ==
    IF b = 1 THEN a
    ELSE IF a = MinI32
    THEN (IF b > 0 THEN -HalfRangeDiv(b)
          ELSE IF b = MinI32 THEN 1
          ELSE HalfRangeDiv(-b))
    ELSE IF b = MinI32 THEN 0
    ELSE IF (a >= 0) = (b > 0) THEN Abs(a) \div Abs(b)
    ELSE -(Abs(a) \div Abs(b))

\* usize: `top` says the value is usize::MAX - off, otherwise it is off
Usize(n) == [top |-> FALSE, off |-> n]
\* `integer as usize`: a negative i32 sign-extends to 2^64 + integer
AsUsize(i) == IF i >= 0 THEN [top |-> FALSE, off |-> i] ELSE [top |-> TRUE, off |-> -(i + 1)]
\* a > b on usize (offsets are far below half the range)
UsizeGt(a, b) ==
    IF a.top = b.top THEN (IF a.top THEN a.off < b.off ELSE a.off > b.off)
    ELSE a.top

\* decimal rendering of a usize / non-negative integer ({} in format!)
Digit(d) == <<"0", "1", "2", "3", "4", "5", "6", "7", "8", "9">>[d + 1]
RECURSIVE ToDecimal(_)
ToDecimal(n) == IF n < 10 THEN Digit(n) ELSE ToDecimal(n \div 10) \o Digit(n % 10)

(***************************************************************************)
(* Environment (evaluator::environment): a store and an optional outer     *)
(* link, every environment living in a cell of the arena.  outer = 0 is    *)
(* None.                                                                   *)
(***************************************************************************)
EmptyStore == [n \in {} |-> Null]

\* Environment::new()
new_environment == [store |-> EmptyStore, outer |-> 0]

RECURSIVE env_get(_, _, _)
\* Environment::get: the local store first, then the outer links
env_get(h, id, name) ==
    IF name \in DOMAIN h[id].store THEN Some(h[id].store[name])
    ELSE IF h[id].outer = 0 THEN None
    ELSE env_get(h, h[id].outer, name)

\* Environment::set: insert or overwrite in this environment's own store
env_set(e, name, val) ==
    [e EXCEPT !.store = [n \in (DOMAIN e.store) \cup {name} |->
                            IF n = name THEN val ELSE e.store[n]]]

\* Rc::new(RefCell::new(e)): a new cell; its index is the Rc's identity.
\* origin (history) remembers, for the frame of a function application, the
\* environment the applied function had captured; 0 for every other cell.
Alloc(m, e) == [m EXCEPT !.heap = Append(@, e), !.origin = Append(@, 0)]

\* Environment::new_enclosed(self): self moves into a cell of its own and
\* becomes the outer link of a fresh empty environment
new_enclosed(e, m) ==
    [env |-> [store |-> EmptyStore, outer |-> Len(m.heap) + 1], m |-> Alloc(m, e)]

RECURSIVE LexicalVia(_, _, _, _)
\* history: the first environment binding `name` on the chain made of frame f,
\* the environment captured by the function applied in f, and so on (0: none)
LexicalVia(h, org, f, name) ==
    IF name \in DOMAIN h[f].store THEN f
    ELSE IF org[f] = 0 THEN 0
    ELSE LexicalVia(h, org, org[f], name)

(***************************************************************************)
(* Builtin registry (get_builtin_fn).  A Builtin object holds the native   *)
(* function; the model names it by its registry key.                       *)
(***************************************************************************)
BuiltinNames == {"len", "first", "last", "rest", "push", "puts"}

new_error(message) == Error(message)

WrongNumberOfArguments(expected, found) ==
    new_error("wrong number of arguments: expected " \o expected \o ", found " \o ToDecimal(found))

builtin_len(objs) ==
    IF Len(objs) # 1 THEN WrongNumberOfArguments("1", Len(objs))
    ELSE IF objs[1].type = "STRING" THEN Integer(Len(objs[1].str))
    ELSE IF objs[1].type = "ARRAY" THEN Integer(Len(objs[1].elements))
    ELSE new_error("argument to 'len' not supported, found " \o get_type_str(objs[1]))

builtin_first(objs) ==
    IF Len(objs) # 1 THEN WrongNumberOfArguments("1", Len(objs))
    ELSE IF objs[1].type = "ARRAY"
    THEN (IF Len(objs[1].elements) # 0 THEN objs[1].elements[1] ELSE Null)
    ELSE new_error("argument to 'first' must be ARRAY, found " \o get_type_str(objs[1]))

builtin_last(objs) ==
    IF Len(objs) # 1 THEN WrongNumberOfArguments("1", Len(objs))
    ELSE IF objs[1].type = "ARRAY"
    THEN (IF Len(objs[1].elements) # 0 THEN objs[1].elements[Len(objs[1].elements)] ELSE Null)
    ELSE new_error("argument to 'last' must be ARRAY, found " \o get_type_str(objs[1]))

builtin_rest(objs) ==
    IF Len(objs) # 1 THEN WrongNumberOfArguments("1", Len(objs))
    ELSE IF objs[1].type = "ARRAY"
    THEN (IF Len(objs[1].elements) # 0
          THEN Array(SubSeq(objs[1].elements, 2, Len(objs[1].elements)))
          ELSE Null)
    ELSE new_error("argument to 'rest' must be ARRAY, found " \o get_type_str(objs[1]))

builtin_push(objs) ==
    IF Len(objs) # 2 THEN WrongNumberOfArguments("2", Len(objs))
    ELSE IF objs[1].type = "ARRAY" THEN Array(Append(objs[1].elements, objs[2]))
    ELSE new_error("argument to 'push' must be ARRAY, found " \o get_type_str(objs[1]))

\* puts: println! of every argument, in order; `output` keeps the objects
\* printed (their rendering is the Display impl of the object module)
builtin_puts(objs, m) == [val |-> Null, m |-> [m EXCEPT !.output = @ \o objs]]

get_builtin_fn(name) == IF name \in BuiltinNames THEN Some(Builtin(name)) ELSE None

\* builtin(args.to_owned()): the call of the native function
InvokeBuiltin(name, objs, m) ==
    IF name = "puts" THEN builtin_puts(objs, m)
    ELSE [val |-> CASE name = "len" -> builtin_len(objs)
                    [] name = "first" -> builtin_first(objs)
                    [] name = "last" -> builtin_last(objs)
                    [] name = "rest" -> builtin_rest(objs)
                    [] name = "push" -> builtin_push(objs),
          m |-> m]

(***************************************************************************)
(* The evaluator.                                                          *)
(***************************************************************************)
RECURSIVE eval_program_loop(_, _, _, _, _)
RECURSIVE eval_block_loop(_, _, _, _, _)
RECURSIVE eval_statement(_, _, _)
RECURSIVE eval_expression(_, _, _)
RECURSIVE eval_expressions_loop(_, _, _, _, _)
RECURSIVE eval_hash_loop(_, _, _, _, _)
RECURSIVE apply_function(_, _, _)

is_truthy(object) ==
    ~((object.type = "BOOLEAN" /\ object.bool = FALSE) \/ object.type = "NULL")

get_bool_object(expr) == IF expr THEN Boolean(TRUE) ELSE Boolean(FALSE)

\* eval_program: the host's statement sequence; a ReturnValue ends it, unwrapped
eval_program_loop(stmts, i, res, env, m) ==
    IF i > Len(stmts) THEN Ok(res, m)
    ELSE LET step(r) ==
                 IF r.tag # "Ok" THEN r
                 ELSE LET m2 == Emit(r.m, [ev |-> "stmt_done", env |-> env, idx |-> i,
                                           of |-> Len(stmts), val |-> r.val])
                      IN  IF r.val.type = "RETURN_VALUE" THEN Ok(r.val.inner, m2)
                          ELSE eval_program_loop(stmts, i + 1, r.val, env, m2)
         IN  step(eval_statement(stmts[i], env,
                      Emit(m, [ev |-> "stmt", env |-> env, idx |-> i, of |-> Len(stmts)])))

eval_program(stmts, env, m) == eval_program_loop(stmts, 1, Null, env, m)

\* eval_block_statement: a ReturnValue ends the block and stays wrapped
eval_block_loop(stmts, i, res, env, m) ==
    IF i > Len(stmts) THEN Ok(res, m)
    ELSE LET step(r) ==
                 IF r.tag # "Ok" THEN r
                 ELSE LET m2 == Emit(r.m, [ev |-> "stmt_done", env |-> env, idx |-> i,
                                           of |-> Len(stmts), val |-> r.val])
                      IN  IF r.val.type = "RETURN_VALUE" THEN Ok(r.val, m2)
                          ELSE eval_block_loop(stmts, i + 1, r.val, env, m2)
         IN  step(eval_statement(stmts[i], env,
                      Emit(m, [ev |-> "stmt", env |-> env, idx |-> i, of |-> Len(stmts)])))

eval_block_statement(stmts, env, m) == eval_block_loop(stmts, 1, Null, env, m)

\* a plausible slip: the binding goes to the enclosing environment when
\* there is one
eval_let_outer(stmt, env, m) ==
    LET bind(r) ==
            IF r.tag # "Ok" THEN r
            ELSE LET target == IF r.m.heap[env].outer = 0 THEN env ELSE r.m.heap[env].outer
                     h2 == [r.m.heap EXCEPT ![target] = env_set(@, stmt.identifier, r.val)]
                 IN  Ok(Null, Emit([r.m EXCEPT !.heap = h2],
                                   [ev |-> "let", env |-> env, name |-> stmt.identifier,
                                    val |-> r.val, cells |-> Len(h2),
                                    visible |-> env_get(h2, env, stmt.identifier),
                                    changed |-> {c \in 1..Len(h2) : h2[c] # r.m.heap[c]}]))
    IN  bind(eval_expression(stmt.value, env, m))

\* Statement::Let
eval_let(stmt, env, m) ==
    LET bind(r) ==
            IF r.tag # "Ok" THEN r
            ELSE LET h2 == [r.m.heap EXCEPT ![env] = env_set(@, stmt.identifier, r.val)]
                 IN  Ok(Null, Emit([r.m EXCEPT !.heap = h2],
                                   [ev |-> "let", env |-> env, name |-> stmt.identifier,
                                    val |-> r.val, cells |-> Len(h2),
                                    visible |-> env_get(h2, env, stmt.identifier),
                                    changed |-> {c \in 1..Len(h2) : h2[c] # r.m.heap[c]}]))
    IN  bind(eval_expression(stmt.value, env, m))

\* Statement::Return
eval_return(stmt, env, m) ==
    LET wrap(r) ==
            IF r.tag # "Ok" THEN r
            ELSE Ok(ReturnValue(r.val),
                    Emit(r.m, [ev |-> "return", env |-> env, val |-> r.val]))
    IN  wrap(eval_expression(stmt.value, env, m))

eval_statement(stmt, env, m) ==
    CASE stmt.kind = "Let" -> eval_let(stmt, env, m)
      [] stmt.kind = "Return" -> eval_return(stmt, env, m)
      [] stmt.kind = "Expression" -> eval_expression(stmt.expr, env, m)

\* a plausible slip: a failed element is dropped and the loop goes on
eval_expressions_loop_skip(exprs, i, acc, env, m) ==
    IF i > Len(exprs) THEN Ok(acc, m)
    ELSE LET push(r) ==
                 IF r.tag = "Panic" THEN r
                 ELSE eval_expressions_loop(exprs, i + 1,
                          IF r.tag = "Err" THEN acc ELSE Append(acc, r.val), env, r.m)
         IN  push(eval_expression(exprs[i], env, m))

\* for expr in exprs.iter() { result.push(eval_expression(expr, env)?) }
eval_expressions_loop(exprs, i, acc, env, m) ==
    IF i > Len(exprs) THEN Ok(acc, m)
    ELSE LET push(r) ==
                 IF r.tag # "Ok" THEN r
                 ELSE eval_expressions_loop(exprs, i + 1, Append(acc, r.val), env, r.m)
         IN  push(eval_expression(exprs[i], env, m))

eval_expressions(exprs, env, m) == eval_expressions_loop(exprs, 1, <<>>, env, m)

eval_bang_operator_expression(expr, m) ==
    IF expr.type = "BOOLEAN" THEN Ok(Boolean(~expr.bool), m)
    ELSE IF expr.type = "NULL" THEN Ok(Boolean(TRUE), m)
    ELSE Ok(Boolean(FALSE), m)

eval_minus_operator_expression(expr, m) ==
    IF expr.type = "INTEGER"
    THEN (IF NegOverflows(expr.int) /\ m.checks
          THEN Panic("attempt to negate with overflow", m)
          ELSE Ok(Integer(WrappingNeg(expr.int)), m))
    ELSE Err("unknown operator: -" \o get_type_str(expr), m)

eval_prefix_expression(prefix, expr, m) ==
    IF prefix = "!" THEN eval_bang_operator_expression(expr, m)
    ELSE IF prefix = "-" THEN eval_minus_operator_expression(expr, m)
    ELSE Err("unknown operator: " \o prefix \o get_type_str(expr), m)

eval_integer_infix_expression(operator, lhs, rhs, m) ==
    CASE operator = "+" ->
            IF AddOverflows(lhs, rhs) /\ m.checks
            THEN Panic("attempt to add with overflow", m)
            ELSE Ok(Integer(WrappingAdd(lhs, rhs)), m)
      [] operator = "-" ->
            IF SubOverflows(lhs, rhs) /\ m.checks
            THEN Panic("attempt to subtract with overflow", m)
            ELSE Ok(Integer(WrappingSub(lhs, rhs)), m)
      [] operator = "*" ->
            IF MulOverflows(lhs, rhs) /\ m.checks
            THEN Panic("attempt to multiply with overflow", m)
            ELSE Ok(Integer(WrappingMul(lhs, rhs)), m)
      [] operator = "/" ->
            IF rhs = 0 THEN Panic("attempt to divide by zero", m)
            ELSE IF lhs = MinI32 /\ rhs = -1 THEN Panic("attempt to divide with overflow", m)
            ELSE Ok(Integer(TruncDiv(lhs, rhs)), m)
      [] operator = "<" -> Ok(get_bool_object(lhs < rhs), m)
      [] operator = ">" -> Ok(get_bool_object(lhs > rhs), m)
      [] operator = "==" -> Ok(get_bool_object(lhs = rhs), m)
      [] operator = "!=" -> Ok(get_bool_object(lhs # rhs), m)
      [] OTHER -> Err("unknown operator: INTEGER " \o operator \o " INTEGER", m)

eval_boolean_infix_expression(operator, lhs, rhs, m) ==
    CASE operator = "==" -> Ok(get_bool_object(lhs = rhs), m)
      [] operator = "!=" -> Ok(get_bool_object(lhs # rhs), m)
      [] OTHER -> Err("unknown operator: BOOLEAN " \o operator \o " BOOLEAN", m)

eval_string_infix_expression(operator, lhs, rhs, m) ==
    CASE operator = "+" -> Ok(String(lhs \o rhs), m)
      [] OTHER -> Err("unknown operator: STRING " \o operator \o " STRING", m)

eval_infix_expression(operator, lhs, rhs, m) ==
    IF lhs.type = "INTEGER" /\ rhs.type = "INTEGER"
    THEN eval_integer_infix_expression(operator, lhs.int, rhs.int, m)
    ELSE IF lhs.type = "BOOLEAN" /\ rhs.type = "BOOLEAN"
    THEN eval_boolean_infix_expression(operator, lhs.bool, rhs.bool, m)
    ELSE IF lhs.type = "STRING" /\ rhs.type = "STRING"
    THEN eval_string_infix_expression(operator, lhs.str, rhs.str, m)
    ELSE Err("unknown operator: " \o get_type_str(lhs) \o " " \o operator \o " "
                 \o get_type_str(rhs), m)

eval_if_expression(expr, env, m) ==
    LET branch(condition) ==
            IF condition.tag # "Ok" THEN condition
            ELSE IF is_truthy(condition.val)
            THEN eval_block_statement(expr.consequence, env, condition.m)
            ELSE IF expr.alternative.some
            THEN eval_block_statement(expr.alternative.val, env, condition.m)
            ELSE Ok(Null, condition.m)
    IN  branch(eval_expression(expr.condition, env, m))

\* history: the stores along the outer links, starting at cell id
RECURSIVE ScopeChain(_, _)
ScopeChain(h, id) ==
    IF h[id].outer = 0 THEN <<h[id].store>>
    ELSE <<h[id].store>> \o ScopeChain(h, h[id].outer)

\* a plausible slip: the registry is consulted before the environment
eval_identifier_registry_first(identifier, env, m) ==
    LET value == identifier.name
        got == env_get(m.heap, env, value)
        via == LexicalVia(m.heap, m.origin, env, value)
        builtin == get_builtin_fn(value)
        r == IF builtin.some THEN [tag |-> "Ok", val |-> builtin.val]
             ELSE IF got.some THEN [tag |-> "Ok", val |-> got.val]
             ELSE [tag |-> "Err", val |-> "identifier not found: " \o value]
        m1 == Emit(m, [ev |-> "ident", env |-> env, name |-> value, found |-> got,
                       tag |-> r.tag, val |-> r.val, chain |-> ScopeChain(m.heap, env),
                       via |-> via,
                       lexical |-> IF via = 0 THEN None ELSE Some(m.heap[via].store[value])])
    IN  IF r.tag = "Ok" THEN Ok(r.val, m1) ELSE Err(r.val, m1)

eval_identifier(identifier, env, m) ==
    LET value == identifier.name
        got == env_get(m.heap, env, value)
        via == LexicalVia(m.heap, m.origin, env, value)
        r == IF got.some THEN [tag |-> "Ok", val |-> got.val]
             ELSE LET builtin == get_builtin_fn(value)
                  IN  IF builtin.some THEN [tag |-> "Ok", val |-> builtin.val]
                      ELSE [tag |-> "Err", val |-> "identifier not found: " \o value]
        m1 == Emit(m, [ev |-> "ident", env |-> env, name |-> value, found |-> got,
                       tag |-> r.tag, val |-> r.val, chain |-> ScopeChain(m.heap, env),
                       via |-> via,
                       lexical |-> IF via = 0 THEN None ELSE Some(m.heap[via].store[value])])
    IN  IF r.tag = "Ok" THEN Ok(r.val, m1) ELSE Err(r.val, m1)

RECURSIVE extend_function_env_loop(_, _, _, _, _)
\* for (i, param) in parameters: env.set(param.name, args[i]); args[i] panics
\* when the call passed fewer arguments than the function has parameters
extend_function_env_loop(parameters, i, args, e, m) ==
    IF i > Len(parameters) THEN Ok(e, m)
    ELSE IF i > Len(args)
    THEN Panic("index out of bounds: the len is " \o ToDecimal(Len(args))
                   \o " but the index is " \o ToDecimal(i - 1), m)
    ELSE extend_function_env_loop(parameters, i + 1, args,
                                  env_set(e, parameters[i], args[i]), m)

\* env.borrow().clone().new_enclosed(): the outer link of the new environment
\* is a clone of the captured environment (its store copied, its own outer
\* link shared), not the captured cell
extend_function_env(parameters, env, args, m) ==
    LET enclosed == new_enclosed(m.heap[env], m)
    IN  extend_function_env_loop(parameters, 1, args, enclosed.env, enclosed.m)

apply_function(function, args, m) ==
    LET m0 == Emit(m, [ev |-> "apply_function", function |-> function, args |-> args])
        unwrap(extended_env, evaluated) ==
            IF evaluated.tag # "Ok" THEN evaluated
            ELSE LET v == IF evaluated.val.type = "RETURN_VALUE"
                          THEN evaluated.val.inner ELSE evaluated.val
                 IN  Ok(v, Emit(evaluated.m,
                                [ev |-> "applied", frame |-> extended_env,
                                 body |-> evaluated.val, val |-> v]))
        enter(extended_env, m1) ==
            unwrap(extended_env,
                   eval_block_statement(function.body, extended_env,
                       Emit(m1, [ev |-> "apply", frame |-> extended_env,
                                 captured |-> function.env])))
        extended(x) ==
            IF x.tag # "Ok" THEN x
            ELSE enter(Len(x.m.heap) + 1,
                       [Alloc(x.m, x.val) EXCEPT !.origin[Len(x.m.heap) + 1] = function.env])
    IN  IF function.type = "FUNCTION"
        THEN extended(extend_function_env(function.parameters, function.env, args, m0))
        ELSE IF function.type = "BUILTIN"
        THEN LET b == InvokeBuiltin(function.builtin, args,
                          Emit(m0, [ev |-> "builtin", name |-> function.builtin]))
             IN  Ok(b.val, b.m)
        ELSE Err("not a function: " \o get_type_str(function), m0)

\* a plausible slip: the check for an Error argument made for every length
eval_call_any_error(expr, env, m) ==
    LET call(function, args) ==
            IF args.tag # "Ok" THEN args
            ELSE LET m1 == Emit(args.m, [ev |-> "call", function |-> function.val,
                                         args |-> args.val])
                     errs == {k \in 1..Len(args.val) : args.val[k].type = "ERROR"}
                 IN  IF errs # {}
                     THEN LET first_error == args.val[CHOOSE k \in errs :
                                                      \A j \in errs : k <= j]
                          IN  Ok(first_error,
                                 Emit(m1, [ev |-> "call_short", val |-> first_error]))
                     ELSE apply_function(function.val, args.val, m1)
        callee(function) ==
            IF function.tag # "Ok" THEN function
            ELSE call(function, eval_expressions(expr.arguments, env, function.m))
    IN  callee(eval_expression(expr.function, env, m))

\* Expression::Call
eval_call(expr, env, m) ==
    LET call(function, args) ==
            IF args.tag # "Ok" THEN args
            ELSE LET m1 == Emit(args.m, [ev |-> "call", function |-> function.val,
                                         args |-> args.val])
                 IN  IF Len(args.val) = 1 /\ args.val[1].type = "ERROR"
                     THEN Ok(args.val[1],
                             Emit(m1, [ev |-> "call_short", val |-> args.val[1]]))
                     ELSE apply_function(function.val, args.val, m1)
        callee(function) ==
            IF function.tag # "Ok" THEN function
            ELSE call(function, eval_expressions(expr.arguments, env, function.m))
    IN  callee(eval_expression(expr.function, env, m))

eval_array_index_expression(array, index, m) ==
    IF Len(array) = 0 /\ m.checks
    THEN Panic("attempt to subtract with overflow", m)
    ELSE LET last_index == IF Len(array) = 0 THEN [top |-> TRUE, off |-> 0]
                           ELSE Usize(Len(array) - 1)
         IN  IF UsizeGt(index, last_index) THEN Ok(Null, m)
             ELSE IF index.top \/ index.off >= Len(array)
             THEN Panic("index out of bounds: the len is " \o ToDecimal(Len(array)), m)
             ELSE Ok(array[index.off + 1], m)

\* BTreeMap::get
HashGet(pairs, hash_key) ==
    LET S == {k \in 1..Len(pairs) : SameHashKey(pairs[k].hash_key, hash_key)}
    IN  IF S = {} THEN None ELSE Some(pairs[CHOOSE k \in S : TRUE])

\* BTreeMap::insert: the pair of an equal key is replaced
HashInsert(pairs, hash_key, pair) ==
    LET S == {k \in 1..Len(pairs) : SameHashKey(pairs[k].hash_key, hash_key)}
        entry == [hash_key |-> hash_key, key |-> pair.key, value |-> pair.value]
    IN  IF S = {} THEN Append(pairs, entry)
        ELSE [pairs EXCEPT ![CHOOSE k \in S : TRUE] = entry]

eval_hash_index_expression(hash, index, m) ==
    LET hash_key == get_hash_key(index)
    IN  IF hash_key.some
        THEN LET pair == HashGet(hash, hash_key.val)
             IN  IF pair.some THEN Ok(pair.val.value, m) ELSE Ok(Null, m)
        ELSE Err("unusable as hash key: " \o get_type_str(index), m)

eval_index_expression(identifier, index, m) ==
    IF identifier.type = "ARRAY" /\ index.type = "INTEGER"
    THEN LET note(r) ==
                 [r EXCEPT !.m = Emit(@, [ev |-> "array_index", array |-> identifier.elements,
                                          index |-> index.int, tag |-> r.tag, val |-> r.val])]
         IN  note(eval_array_index_expression(identifier.elements, AsUsize(index.int), m))
    ELSE IF identifier.type = "HASH"
    THEN eval_hash_index_expression(identifier.pairs, index, m)
    ELSE Err("index operator not supported: " \o get_type_str(identifier), m)

\* Expression::Index
eval_index(expr, env, m) ==
    LET indexed(identifier, index) ==
            IF index.tag # "Ok" THEN index
            ELSE eval_index_expression(identifier.val, index.val,
                     Emit(index.m, [ev |-> "operands",
                                    vals |-> <<identifier.val, index.val>>]))
        left(identifier) ==
            IF identifier.tag # "Ok" THEN identifier
            ELSE indexed(identifier, eval_expression(expr.index, env, identifier.m))
    IN  left(eval_expression(expr.identifier, env, m))

eval_hash_loop(pairs, i, acc, env, m) ==
    IF i > Len(pairs) THEN Ok(Hash(acc), m)
    ELSE LET insert(key, hash_key, value) ==
                 IF value.tag # "Ok" THEN value
                 ELSE eval_hash_loop(pairs, i + 1,
                          HashInsert(acc, hash_key.val, [key |-> key.val, value |-> value.val]),
                          env,
                          Emit(value.m, [ev |-> "elements", vals |-> <<key.val, value.val>>]))
             hashed(key, hash_key) ==
                 IF hash_key.some
                 THEN insert(key, hash_key, eval_expression(pairs[i][2], env, key.m))
                 ELSE Err("unusable as hash key: " \o get_type_str(key.val), key.m)
             keyed(key) ==
                 IF key.tag # "Ok" THEN key ELSE hashed(key, get_hash_key(key.val))
         IN  keyed(eval_expression(pairs[i][1], env, m))

eval_hash_literal(hash_literal, env, m) == eval_hash_loop(hash_literal.pairs, 1, <<>>, env, m)

\* Expression::Prefix
eval_prefix(expr, env, m) ==
    LET right(rhs) ==
            IF rhs.tag # "Ok" THEN rhs
            ELSE eval_prefix_expression(expr.operator, rhs.val,
                     Emit(rhs.m, [ev |-> "operands", vals |-> <<rhs.val>>]))
    IN  right(eval_expression(expr.operand, env, m))

\* Expression::Infix
eval_infix(expr, env, m) ==
    LET right(lhs, rhs) ==
            IF rhs.tag # "Ok" THEN rhs
            ELSE eval_infix_expression(expr.operator, lhs.val, rhs.val,
                     Emit(rhs.m, [ev |-> "operands", vals |-> <<lhs.val, rhs.val>>]))
        left(lhs) ==
            IF lhs.tag # "Ok" THEN lhs
            ELSE right(lhs, eval_expression(expr.rhs, env, lhs.m))
    IN  left(eval_expression(expr.lhs, env, m))

\* Expression::ArrayLiteral
eval_array_literal(expr, env, m) ==
    LET array(elements) ==
            IF elements.tag # "Ok" THEN elements
            ELSE Ok(Array(elements.val),
                    Emit(elements.m, [ev |-> "elements", vals |-> elements.val]))
    IN  array(eval_expressions(expr.elements, env, m))

eval_expression(expr, env, m) ==
    LET m1 == Emit(m, [ev |-> "expr", env |-> env, kind |-> expr.kind])
    IN  CASE expr.kind = "Identifier" -> eval_identifier(expr, env, m1)
          [] expr.kind = "Integer" -> Ok(Integer(expr.value), m1)
          [] expr.kind = "Boolean" -> Ok(get_bool_object(expr.bvalue), m1)
          [] expr.kind = "String" -> Ok(String(expr.svalue), m1)
          [] expr.kind = "Prefix" -> eval_prefix(expr, env, m1)
          [] expr.kind = "Infix" -> eval_infix(expr, env, m1)
          [] expr.kind = "If" -> eval_if_expression(expr, env, m1)
          [] expr.kind = "FnLiteral" -> Ok(Function(expr.parameters, expr.body, env), m1)
          [] expr.kind = "ArrayLiteral" -> eval_array_literal(expr, env, m1)
          [] expr.kind = "HashLiteral" -> eval_hash_literal(expr, env, m1)
          [] expr.kind = "Call" -> eval_call(expr, env, m1)
          [] expr.kind = "Index" -> eval_index(expr, env, m1)

\* the entry point: an Err becomes an Error object; a panic is not caught
eval(node, env, m) ==
    LET object(r) == IF r.tag = "Err" THEN Ok(Error(r.val), r.m) ELSE r
    IN  object(CASE node.node = "Program" -> eval_program(node.stmts, env, m)
                 [] node.node = "Statement" -> eval_statement(node.stmt, env, m)
                 [] node.node = "Expression" -> eval_expression(node.expr, env, m))

(***************************************************************************)
(* The host.  It creates the root environment once and hands eval one AST  *)
(* node after the other.  The nodes are the inputs of the model: small     *)
(* programs that reach every rule of the evaluator.                        *)
(***************************************************************************)
S(e) == ExprStmt(e)
N(v) == IntLit(v)
TrueLit == BoolLit(TRUE)
Neg(e) == Prefix("-", e)

\* let newAdder = fn(x) { fn(y) { x + y } }; let addTwo = newAdder(2); addTwo(3)
PAdder == Program(<<
    Let("newAdder", Fn(<<"x">>, <<S(Fn(<<"y">>, <<S(Infix("+", Id("x"), Id("y")))>>))>>)),
    Let("addTwo", Call(Id("newAdder"), <<N(2)>>)),
    S(Call(Id("addTwo"), <<N(3)>>)) >>)

\* let mk = fn() { fn() { z } }; let g = mk(); let z = 10; g()
PLateLet == Program(<<
    Let("mk", Fn(<<>>, <<S(Fn(<<>>, <<S(Id("z"))>>))>>)),
    Let("g", Call(Id("mk"), <<>>)),
    Let("z", N(10)),
    S(Call(Id("g"), <<>>)) >>)

\* let x = 1; let rd = fn() { x }; let caller = fn(x) { rd() }; caller(9)
PCaller == Program(<<
    Let("x", N(1)),
    Let("rd", Fn(<<>>, <<S(Id("x"))>>)),
    Let("caller", Fn(<<"x">>, <<S(Call(Id("rd"), <<>>))>>)),
    S(Call(Id("caller"), <<N(9)>>)) >>)

\* let f = fn(a) { if (a) { if (true) { return 1 }; puts(2) }; puts(3); 4 };
\* let r = f(true); puts(r); r
PNestedReturn == Program(<<
    Let("f", Fn(<<"a">>, <<
        S(If(Id("a"), <<S(If(TrueLit, <<Return(N(1))>>)), S(Call(Id("puts"), <<N(2)>>))>>)),
        S(Call(Id("puts"), <<N(3)>>)),
        S(N(4)) >>)),
    Let("r", Call(Id("f"), <<TrueLit>>)),
    S(Call(Id("puts"), <<Id("r")>>)),
    S(Id("r")) >>)

\* let f = fn() { let a = if (true) { return 1 }; 2 }; f()
PLetIfReturn == Program(<<
    Let("f", Fn(<<>>, <<Let("a", If(TrueLit, <<Return(N(1))>>)), S(N(2))>>)),
    S(Call(Id("f"), <<>>)) >>)

\* if (true) { if (true) { return 7 } }; puts(8)
PTopReturn == Program(<<
    S(If(TrueLit, <<S(If(TrueLit, <<Return(N(7))>>))>>)),
    S(Call(Id("puts"), <<N(8)>>)) >>)

\* return if (true) { return 1 }
PReturnIfReturn == Program(<< Return(If(TrueLit, <<Return(N(1))>>)) >>)

\* let inner = fn() { return 1; 2 }; let outerf = fn() { inner(); 3 }; outerf()
PInnerOuter == Program(<<
    Let("inner", Fn(<<>>, <<Return(N(1)), S(N(2))>>)),
    Let("outerf", Fn(<<>>, <<S(Call(Id("inner"), <<>>)), S(N(3))>>)),
    S(Call(Id("outerf"), <<>>)) >>)

\* [if (true) { return 1 }, 2]
PReturnElement == Program(<< S(ArrayLit(<<If(TrueLit, <<Return(N(1))>>), N(2)>>)) >>)

\* let a = 1; let f = fn() { if (true) { [1, foo, puts(2)] }; let b = 2 }; f(); let c = 3
PFailNested == Program(<<
    Let("a", N(1)),
    Let("f", Fn(<<>>, <<
        S(If(TrueLit, <<S(ArrayLit(<<N(1), Id("foo"), Call(Id("puts"), <<N(2)>>)>>))>>)),
        Let("b", N(2)) >>)),
    S(Call(Id("f"), <<>>)),
    Let("c", N(3)) >>)

\* let k = 1; let k = -true + puts(1); let j = 2
PFailOperator == Program(<<
    Let("k", N(1)),
    Let("k", Infix("+", Neg(TrueLit), Call(Id("puts"), <<N(1)>>))),
    Let("j", N(2)) >>)

\* 1 + true; true < false; "a" - "b"; 1 % 2 : one statement each, the first fails
PUnknownInfix == Program(<< S(Infix("+", N(1), TrueLit)), Let("u", N(1)) >>)
PUnknownBool == Program(<< S(Infix("<", TrueLit, BoolLit(FALSE))), Let("u", N(1)) >>)
PUnknownStr == Program(<< S(Infix("-", StrLit("a"), StrLit("b"))), Let("u", N(1)) >>)

\* let a = 1(puts(2), 3); puts(a)
PNotFunction == Program(<<
    Let("a", Call(N(1), <<Call(Id("puts"), <<N(2)>>), N(3)>>)),
    S(Call(Id("puts"), <<Id("a")>>)) >>)

\* let h = {"a": 1, true: 2, "a": 3}; h["a"] + h[true]; h[fn() { 1 }]; let v = 1
PHashIndex == Program(<<
    Let("h", HashLit(<< <<StrLit("a"), N(1)>>, <<TrueLit, N(2)>>, <<StrLit("a"), N(3)>> >>)),
    S(Infix("+", Index(Id("h"), StrLit("a")), Index(Id("h"), TrueLit))),
    S(Index(Id("h"), Fn(<<>>, <<S(N(1))>>))),
    Let("v", N(1)) >>)

\* {fn() { 1 }: puts(1)}; let v = 1
PHashKey == Program(<<
    S(HashLit(<< <<Fn(<<>>, <<S(N(1))>>), Call(Id("puts"), <<N(1)>>)>> >>)),
    Let("v", N(1)) >>)

\* 1[0]; let v = 1
PIndexUnsupported == Program(<< S(Index(N(1), N(0))), Let("v", N(1)) >>)

\* 7 / 2 + -7 / 2 + 1 / 0
PDivide == Program(<<
    S(Infix("+", Infix("+", Infix("/", N(7), N(2)), Infix("/", Neg(N(7)), N(2))),
                 Infix("/", N(1), N(0)))) >>)

\* fn(x, y) { x }(1)
PArity == Program(<< S(Call(Fn(<<"x", "y">>, <<S(Id("x"))>>), <<N(1)>>)) >>)

\* 2147483647 + 1
PAddOverflow == Program(<< S(Infix("+", N(MaxI32), N(1))) >>)
\* -(-2147483647 - 1)
PNegOverflow == Program(<< S(Neg(Infix("-", Neg(N(MaxI32)), N(1)))) >>)
\* 65536 * 65537 - (-2147483647 - 2)
PMulOverflow == Program(<<
    S(Infix("*", N(65536), N(65537))),
    S(Infix("-", Neg(N(MaxI32)), N(2))) >>)

\* [][0]
PIndexEmpty == Program(<< S(Index(ArrayLit(<<>>), N(0))) >>)
\* [1, 2][i] for the index expression i
PIndex(i) == Program(<< S(Index(ArrayLit(<<N(1), N(2)>>), i)) >>)

\* let x = 5; let f = fn() { let x = 7; if (true) { let y = x }; y }; f() + x
PLetScopes == Program(<<
    Let("x", N(5)),
    Let("f", Fn(<<>>, <<
        Let("x", N(7)),
        S(If(TrueLit, <<Let("y", Id("x"))>>)),
        S(Id("y")) >>)),
    S(Infix("+", Call(Id("f"), <<>>), Id("x"))) >>)

\* if (false) { 1 } else { let t = 1 }; t
PLetInElse == Program(<<
    S(IfElse(BoolLit(FALSE), <<S(N(1))>>, <<Let("t", N(1))>>)),
    S(Id("t")) >>)

\* len(len(1)); 5(len(1)); fn(e) { puts(1); e }(first(1)); 7
PShortCall == Program(<<
    S(Call(Id("len"), <<Call(Id("len"), <<N(1)>>)>>)),
    S(Call(N(5), <<Call(Id("len"), <<N(1)>>)>>)),
    S(Call(Fn(<<"e">>, <<S(Call(Id("puts"), <<N(1)>>)), S(Id("e"))>>),
           <<Call(Id("first"), <<N(1)>>)>>)),
    S(N(7)) >>)

\* push(len(1), 2); fn(a, b) { a }(len(1), 2); puts(); rest()
PLongCall == Program(<<
    S(Call(Id("push"), <<Call(Id("len"), <<N(1)>>), N(2)>>)),
    S(Call(Fn(<<"a", "b">>, <<S(Id("a"))>>), <<Call(Id("len"), <<N(1)>>), N(2)>>)),
    S(Call(Id("puts"), <<>>)),
    S(Call(Id("rest"), <<>>)) >>)

\* foo(len(1)); 1
PCalleeFails == Program(<< S(Call(Id("foo"), <<Call(Id("len"), <<N(1)>>)>>)), S(N(1)) >>)

\* 5(len(1), 2)
PNotCallable == Program(<< S(Call(N(5), <<Call(Id("len"), <<N(1)>>), N(2)>>)) >>)

\* len("four") + len([1, 2]); let len = 3; len; fn(len) { len }(4)
PShadowBuiltin == Program(<<
    S(Infix("+", Call(Id("len"), <<StrLit("four")>>),
                 Call(Id("len"), <<ArrayLit(<<N(1), N(2)>>)>>))),
    Let("len", N(3)),
    S(Id("len")),
    S(Call(Fn(<<"len">>, <<S(Id("len"))>>), <<N(4)>>)) >>)

\* let a = [1, 2]; push(a, 3); first(a) + last(a); rest(a); !a; !!false
PArrays == Program(<<
    Let("a", ArrayLit(<<N(1), N(2)>>)),
    S(Call(Id("push"), <<Id("a"), N(3)>>)),
    S(Infix("+", Call(Id("first"), <<Id("a")>>), Call(Id("last"), <<Id("a")>>))),
    S(Call(Id("rest"), <<Id("a")>>)),
    S(Prefix("!", Id("a"))),
    S(Prefix("!", Prefix("!", BoolLit(FALSE)))) >>)

Nodes == {
    PAdder, PLateLet, PCaller, PNestedReturn, PLetIfReturn, PTopReturn, PReturnIfReturn,
    PInnerOuter, PReturnElement, PFailNested, PFailOperator, PUnknownInfix, PUnknownBool,
    PUnknownStr, PNotFunction, PHashIndex, PHashKey, PIndexUnsupported, PDivide, PArity,
    PAddOverflow, PNegOverflow, PMulOverflow, PIndexEmpty, PIndex(N(0)), PIndex(N(1)),
    PIndex(N(2)), PIndex(Neg(N(1))), PIndex(N(MaxI32)), PLetScopes, PLetInElse, PShortCall,
    PLongCall, PCalleeFails, PNotCallable, PShadowBuiltin, PArrays,
    StatementNode(Let("z", N(10))),
    StatementNode(Let("x", N(2))),
    StatementNode(Return(N(1))),
    ExpressionNode(Call(Id("g"), <<>>)),
    ExpressionNode(Call(Id("rd"), <<>>)),
    ExpressionNode(Id("foo")) }

NoResult == [type |-> "NONE"]
NoNode == [node |-> "None"]

Init ==
    /\ heap = <<new_environment>>
    /\ origin = <<0>>
    /\ result = NoResult
    /\ log = <<>>
    /\ output = <<>>
    /\ alive = TRUE
    /\ evals = 0
    /\ checks \in BOOLEAN
    /\ last = NoNode

\* the host calls eval(node, root); a panic ends the process
CallEval(node) ==
    /\ alive
    /\ evals < MaxEvals
    /\ LET returned(r) ==
               /\ heap' = r.m.heap
               /\ origin' = r.m.origin
               /\ output' = r.m.output
               /\ log' = r.m.log
               /\ alive' = (r.tag # "Panic")
               /\ result' = IF r.tag = "Panic" THEN NoResult ELSE r.val
       IN  returned(eval(node, Root, [heap |-> heap, origin |-> origin, output |-> output,
                                      log |-> <<>>, checks |-> checks]))
    /\ evals' = evals + 1
    /\ last' = node
    /\ UNCHANGED checks

Next == \E node \in Nodes : CallEval(node)

Spec == Init /\ [][Next]_vars

(***************************************************************************)
(* Properties.  They read the history of the last call of eval: `log`,     *)
(* the result, and the arena.                                              *)
(***************************************************************************)
Positions == 1..Len(log)

\* the frame of the innermost function application in progress when event k
\* was recorded; the root environment when none is
InProgress(k) ==
    LET open == {j \in 1..(k - 1) :
                    /\ log[j].ev = "apply"
                    /\ ~\E i \in (j + 1)..(k - 1) :
                           log[i].ev = "applied" /\ log[i].frame = log[j].frame}
    IN  IF open = {} THEN Root
        ELSE log[CHOOSE j \in open : \A i \in open : i <= j].frame

RECURSIVE CallFrameOver(_, _)
\* the frame on the chain of applications from frame f whose function had
\* captured environment e (f itself or a frame it descends from)
CallFrameOver(f, e) == IF origin[f] = e THEN f ELSE CallFrameOver(origin[f], e)

\* C1: lexical scoping.  Every identifier looked up in the body of a function
\* resolves along the frame of the application and then the environment the
\* function captured where its literal was evaluated (and so on outward),
\* whatever the caller's environment binds: what the lookup finds is what
\* that definition-site chain binds at the time of the lookup.
C1_LexicalScoping ==
    \A k \in Positions :
        (log[k].ev = "ident" /\ origin[log[k].env] # 0) => log[k].found = log[k].lexical

\* C2: the captured environment is shared, not copied.  A binding that `let`
\* writes into an environment after the frame of an application of a function
\* that captured it was created is found by every later lookup that climbs
\* from that frame (or from the frame of a closure that captured it) up to
\* that environment.
C2_CapturedEnvironmentShared ==
    \A i \in Positions : \A j \in Positions :
        ( /\ i < j
          /\ log[i].ev = "let"
          /\ log[j].ev = "ident"
          /\ log[j].name = log[i].name
          /\ log[j].via = log[i].env
          /\ log[j].env # log[i].env
          /\ CallFrameOver(log[j].env, log[i].env) <= log[i].cells
          /\ ~\E l \in (i + 1)..(j - 1) :
                 log[l].ev = "let" /\ log[l].env = log[i].env /\ log[l].name = log[i].name )
        => log[j].found = Some(log[i].val)

\* C3: early return.  After a `return` statement executed in the frame of a
\* function application, no statement is evaluated in that frame any more and
\* the application yields the returned value, while the caller's statement
\* sequence goes on with its next statement; after a `return` executed at the
\* top level of a program no statement at all is evaluated and the program's
\* result is the returned value.
C3_EarlyReturn ==
    \A k \in Positions :
        log[k].ev = "return" =>
            IF log[k].env # Root
            THEN /\ \A j \in (k + 1)..Len(log) :
                        /\ log[j].ev = "stmt" => log[j].env # log[k].env
                        /\ (log[j].ev = "applied" /\ log[j].frame = log[k].env)
                               => /\ log[j].val = log[k].val
                                  /\ (/\ j + 1 <= Len(log)
                                      /\ log[j + 1].ev = "stmt_done"
                                      /\ log[j + 1].idx < log[j + 1].of)
                                         => /\ j + 2 <= Len(log)
                                            /\ log[j + 2].ev = "stmt"
                                            /\ log[j + 2].env = log[j + 1].env
                                            /\ log[j + 2].idx = log[j + 1].idx + 1
            ELSE last.node = "Program" =>
                    /\ \A j \in (k + 1)..Len(log) : log[j].ev # "stmt"
                    /\ alive => result = log[k].val

\* C4: a ReturnValue is never visible.  The result of eval on a program, the
\* result of every function application, every value bound by `let`, every
\* value wrapped by `return`, every operand, argument and array or hash
\* element is an object other than ReturnValue.
C4_ReturnValueNeverVisible ==
    /\ (last.node = "Program" /\ alive) => result.type # "RETURN_VALUE"
    /\ \A k \in Positions :
        /\ log[k].ev \in {"applied", "let", "return"} => log[k].val.type # "RETURN_VALUE"
        /\ log[k].ev \in {"operands", "elements"} =>
               \A i \in 1..Len(log[k].vals) : log[k].vals[i].type # "RETURN_VALUE"
        /\ log[k].ev = "call" =>
               \A i \in 1..Len(log[k].args) : log[k].args[i].type # "RETURN_VALUE"

\* C5: a propagated failure short-circuits everything.  The raising of a
\* failure is the last thing the evaluation does (no statement, operand,
\* argument or element is evaluated and no `let` is performed after it), eval
\* returns the Error object carrying that failure's message, and every
\* environment is as it was when the failure was raised.
C5_FailureShortCircuits ==
    \A k \in Positions :
        log[k].ev = "fail" =>
            /\ k = Len(log)
            /\ alive
            /\ result.type = "ERROR"
            /\ result.message = log[k].msg
            /\ heap = log[k].heap

\* C5 witness: a failure raised inside an array literal, inside an `if`
\* block, inside a function call, after a `let` at the top level, with
\* elements and statements left over
C5_Witness ==
    \E k \in Positions :
        /\ log[k].ev = "fail"
        /\ log[k].msg = "identifier not found: foo"
        /\ InProgress(k) # Root
        /\ \E j \in 1..(k - 1) : log[j].ev = "let" /\ log[j].env = Root /\ log[j].name = "f"
        /\ "c" \notin DOMAIN heap[Root].store

\* C6: eval never ends in a native failure: every call of eval returns an
\* object to the host.
C6_NoNativeFailure == alive /\ (evals > 0 => result.type # "NONE")

\* C7: array indexing is total.  array[i] is the element at position i when
\* 0 <= i < n and Null otherwise, for every n >= 0; it never fails.
C7_ArrayIndexTotal ==
    \A k \in Positions :
        log[k].ev = "array_index" =>
            /\ log[k].tag = "Ok"
            /\ log[k].val = IF 0 <= log[k].index /\ log[k].index < Len(log[k].array)
                            THEN log[k].array[log[k].index + 1]
                            ELSE Null

\* C8: the frame effect of `let`.  A `let` changes the frame of the innermost
\* function application in progress (the root frame when there is none) and
\* no other cell, also from inside `if`/`else` blocks; the name is then bound
\* there to the value; the statement yields Null.
C8_LetFrameEffect ==
    \A k \in Positions :
        log[k].ev = "let" =>
            /\ log[k].env = InProgress(k)
            /\ log[k].changed \subseteq {InProgress(k)}
            /\ log[k].name \in DOMAIN heap[InProgress(k)].store
            /\ log[k].visible = Some(log[k].val)
            /\ IF k < Len(log)
               THEN log[k + 1].ev = "stmt_done" /\ log[k + 1].val = Null
               ELSE alive /\ result = Null

\* C8 witness: a `let` inside an `if` block inside a function body rebinds
\* nothing outside, and a `let` of the body rebinds a name the root binds:
\* after the call the root still has its own value
C8_Witness ==
    /\ \E k \in Positions :
        /\ log[k].ev = "let" /\ log[k].name = "x" /\ log[k].env # Root
        /\ log[k].val = Integer(7)
    /\ \E k \in Positions :
        /\ log[k].ev = "let" /\ log[k].name = "y" /\ log[k].env # Root
    /\ heap[Root].store["x"] = Integer(5)
    /\ "y" \notin DOMAIN heap[Root].store
    /\ alive /\ result = Integer(12)

SingleError(args) == Len(args) = 1 /\ args[1].type = "ERROR"

\* C9: the asymmetric check of the argument list.  A call whose single
\* argument evaluated to an Error object yields that object at once, without
\* applying the callee, and as an ordinary value: a statement sequence it is
\* a statement of goes on.  Every other call applies the callee to the
\* evaluated arguments.  A failure (of the callee as of anything else) ends
\* the evaluation of expressions.
C9_CallErrorCheck ==
    \A k \in Positions :
        /\ log[k].ev = "call" =>
            /\ k < Len(log)
            /\ IF SingleError(log[k].args)
               THEN /\ log[k + 1].ev = "call_short"
                    /\ log[k + 1].val = log[k].args[1]
                    /\ (/\ k + 2 <= Len(log)
                        /\ log[k + 2].ev = "stmt_done"
                        /\ log[k + 2].idx < log[k + 2].of)
                           => /\ log[k + 2].val = log[k].args[1]
                              /\ k + 3 <= Len(log)
                              /\ log[k + 3].ev = "stmt"
                              /\ log[k + 3].env = log[k + 2].env
                              /\ log[k + 3].idx = log[k + 2].idx + 1
               ELSE /\ log[k + 1].ev = "apply_function"
                    /\ log[k + 1].function = log[k].function
                    /\ log[k + 1].args = log[k].args
        /\ log[k].ev = "apply_function" =>
            /\ k > 1
            /\ log[k - 1].ev = "call"
            /\ ~SingleError(log[k - 1].args)
        /\ log[k].ev = "fail" => \A j \in (k + 1)..Len(log) : log[j].ev # "expr"

\* C9 witness: a call of a value that is no function, with one argument that
\* is an Error object, was a statement of a sequence that went on to its end
C9_Witness ==
    /\ \E k \in Positions :
        /\ log[k].ev = "call"
        /\ SingleError(log[k].args)
        /\ log[k].function.type = "INTEGER"
        /\ log[k + 2].ev = "stmt_done"
        /\ log[k + 2].idx < log[k + 2].of
    /\ \E k \in Positions :
        /\ log[k].ev = "call"
        /\ SingleError(log[k].args)
        /\ log[k].function.type = "FUNCTION"
    /\ output = <<>>
    /\ alive /\ result = Integer(7)

\* C10: identifier resolution order.  An identifier evaluates to the binding
\* of the innermost environment of the scope chain that binds the name; to
\* the builtin of that name when no environment of the chain binds it; and
\* fails with "identifier not found: <name>" otherwise.
C10_IdentifierResolution ==
    \A k \in Positions :
        log[k].ev = "ident" =>
            LET binders == {i \in 1..Len(log[k].chain) : log[k].name \in DOMAIN log[k].chain[i]}
            IN  IF binders # {}
                THEN /\ log[k].tag = "Ok"
                     /\ log[k].val = log[k].chain[CHOOSE i \in binders :
                                                      \A j \in binders : i <= j][log[k].name]
                ELSE IF log[k].name \in {"len", "first", "last", "rest", "push", "puts"}
                THEN /\ log[k].tag = "Ok"
                     /\ log[k].val.type = "BUILTIN"
                     /\ log[k].val.builtin = log[k].name
                ELSE /\ log[k].tag = "Err"
                     /\ log[k].val = "identifier not found: " \o log[k].name
                     /\ k < Len(log)
                     /\ log[k + 1].ev = "fail"
                     /\ log[k + 1].msg = log[k].val

\* C10 witness: `len` is looked up where the frame of the call and the
\* environment behind it both bind it, after the registry had served it
C10_Witness ==
    /\ \E k \in Positions :
        /\ log[k].ev = "ident" /\ log[k].name = "len"
        /\ Cardinality({i \in 1..Len(log[k].chain) : "len" \in DOMAIN log[k].chain[i]}) = 2
        /\ log[k].val = Integer(4)
    /\ \E k \in Positions :
        /\ log[k].ev = "ident" /\ log[k].name = "len"
        /\ log[k].val.type = "BUILTIN"

====
